---- MODULE Spec2Model ----
(***************************************************************************)
(* UEM Dashboard backend (src/main.py, src/schemas.py).                    *)
(*                                                                         *)
(* The state is the document store (three collections, kept in insertion   *)
(* order), the process-wide store handle `db` (None or configured), and,   *)
(* for every request worker, the position of the handler it is running     *)
(* together with the handler's local variables.  Every call on the store   *)
(* is one atomic step; the handlers of different workers interleave        *)
(* between store calls (FastAPI runs `def` handlers on a thread pool).     *)
(***************************************************************************)
EXTENDS Integers, Sequences, FiniteSets, TLC

VARIABLES
    dbConfigured,      \* database.db is not None
    device,            \* db["device"], in insertion order
    alert,             \* db["alert"], in insertion order
    smartperformance,  \* db["smartperformance"], in insertion order
    nextId,            \* next insertion-order identifier (_id) the store assigns
    clock,             \* datetime.utcnow(), as a tick count
    pc,                \* pc[w]: where worker w stands in its handler
    loc,               \* loc[w]: the local variables of w's handler
    resp,              \* resp[w]: the response of the last request w answered
    snap,              \* snap[w]: the store as it was when w's request arrived
    ops,               \* ops[w]: store calls issued by w's current/last request
    log,               \* the requests answered so far, in order of completion
    naturalTies,       \* how the store orders documents equal on a sort key
    store0             \* the store as it was when the process started

vars == <<dbConfigured, device, alert, smartperformance, nextId, clock,
          pc, loc, resp, snap, ops, log, naturalTies, store0>>

store == [device |-> device, alert |-> alert, smartperformance |-> smartperformance]

-----------------------------------------------------------------------------
(* Bounds of the model *)

\* requests served in all, concurrent specification
MaxRequests == 2

\* requests served in all, one-request-at-a-time specification
MaxSeqRequests == 3

\* the last tick of the clock
MaxClock == 2

\* the request workers
Workers == {1, 2}

-----------------------------------------------------------------------------
(* Program constants *)

\* .limit(5)
TopLimit == 5

DETAIL_NOT_CONFIGURED == "Database not configured"

\* Python's None
None == [None |-> TRUE]

\* Python's {}
EmptyDoc == [k \in {} |-> 0]

\* the devices list of seed_demo_data
SeedDevices ==
    << [device_id |-> "D-1001", hostname |-> "LAPTOP-01", type |-> "laptop",
        manufacturer |-> "Dell", installed |-> TRUE, os |-> "Windows 11"],
       [device_id |-> "D-1002", hostname |-> "DESKTOP-01", type |-> "desktop",
        manufacturer |-> "HP", installed |-> FALSE, os |-> "Windows 10"],
       [device_id |-> "D-1003", hostname |-> "LAPTOP-02", type |-> "laptop",
        manufacturer |-> "Lenovo", installed |-> TRUE, os |-> "Windows 11"],
       [device_id |-> "D-1004", hostname |-> "DESKTOP-02", type |-> "desktop",
        manufacturer |-> "Dell", installed |-> TRUE, os |-> "Windows 10"],
       [device_id |-> "D-1005", hostname |-> "LAPTOP-03", type |-> "laptop",
        manufacturer |-> "Acer", installed |-> FALSE, os |-> "Windows 10"] >>

\* the alerts list of seed_demo_data, before its timestamps are read
SeedAlertFields ==
    << [device_id |-> "D-1001", severity |-> "critical", component |-> "CPU",
        message |-> "CPU over 95% for 10m"],
       [device_id |-> "D-1002", severity |-> "warning", component |-> "HDD",
        message |-> "Disk fragmented"],
       [device_id |-> "D-1003", severity |-> "warning", component |-> "RAM",
        message |-> "High memory usage"],
       [device_id |-> "D-1004", severity |-> "critical", component |-> "Battery",
        message |-> "Battery health low"],
       [device_id |-> "D-1005", severity |-> "warning", component |-> "CPU",
        message |-> "Background process spike"],
       [device_id |-> "D-1001", severity |-> "critical", component |-> "HDD",
        message |-> "SMART errors detected"] >>

\* the perf document of seed_demo_data
SeedPerf ==
    [period |-> "week", disk_reclaimed_count |-> 120, tune_pc_fix_count |-> 85,
     malware_fix_count |-> 32, internet_performance_count |-> 74]

-----------------------------------------------------------------------------
(* Documents and the store's operations *)

\* faulty variant of Get: -1 stands for a missing key, not the default
GetSentinel(d, k, default) == IF k \in DOMAIN d THEN d[k] ELSE -1

\* dict.get(k, default)
Get(d, k, default) == IF k \in DOMAIN d THEN d[k] ELSE default

\* `x or {}`
OrEmpty(x) == IF x = None THEN EmptyDoc ELSE x

\* doc with field k set to v
WithField(doc, k, v) ==
    [f \in DOMAIN doc \cup {k} |-> IF f = k THEN v ELSE doc[f]]

\* faulty variant of CountDocuments: counts the documents that carry the
\* filter's fields, whatever their values
CountDocumentsAnyValue(coll, filter) ==
    Cardinality({i \in DOMAIN coll : DOMAIN filter \subseteq DOMAIN coll[i]})

\* a document matches a filter when it carries every field of the filter with
\* the filter's value; the filter {} matches every document
Matches(doc, filter) ==
    \A k \in DOMAIN filter : k \in DOMAIN doc /\ doc[k] = filter[k]

\* collection.count_documents(filter)
CountDocuments(coll, filter) ==
    Cardinality({i \in DOMAIN coll : Matches(coll[i], filter)})

\* the store gives each inserted document the next identifiers, in list order
InsertMany(coll, docs, id0) ==
    coll \o [i \in 1..Len(docs) |-> WithField(docs[i], "_id", id0 + i - 1)]

\* collection.insert_one(doc)
InsertOne(coll, doc, id0) == InsertMany(coll, <<doc>>, id0)

Reverse(s) == [i \in 1..Len(s) |-> s[Len(s) + 1 - i]]

\* s in descending order of field f; documents equal on f keep the order of s
RECURSIVE SortDesc(_, _)
SortDesc(s, f) ==
    IF s = <<>> THEN <<>>
    ELSE LET h    == Head(s)
             rest == SortDesc(Tail(s), f)
             k    == Cardinality({i \in DOMAIN rest : rest[i][f] > h[f]})
         IN  SubSeq(rest, 1, k) \o <<h>> \o SubSeq(rest, k + 1, Len(rest))

\* faulty variant of SortDescTies: the sort stage left out
SortDescTiesUnsorted(s, f, natural) == IF natural THEN s ELSE Reverse(s)

\* The store leaves the order of documents equal on the sort key open: a
\* store takes them in the order met (natural) or in the opposite order.
SortDescTies(s, f, natural) ==
    IF natural THEN SortDesc(s, f) ELSE SortDesc(Reverse(s), f)

\* the distinct values of field f, in order of first occurrence
RECURSIVE DistinctValues(_, _)
DistinctValues(coll, f) ==
    IF coll = <<>> THEN <<>>
    ELSE LET init == DistinctValues(SubSeq(coll, 1, Len(coll) - 1), f)
             v    == coll[Len(coll)][f]
         IN  IF \E i \in DOMAIN init : init[i] = v THEN init ELSE Append(init, v)

\* faulty variant of Group: {"$sum": 1} left out, every group counts 1
GroupCountingOne(coll, f) ==
    LET vals == DistinctValues(coll, f)
    IN  [i \in DOMAIN vals |-> [_id |-> vals[i], count |-> 1]]

\* {"$group": {"_id": "$f", "count": {"$sum": 1}}}
Group(coll, f) ==
    LET vals == DistinctValues(coll, f)
    IN  [i \in DOMAIN vals |->
            [_id |-> vals[i],
             count |-> Cardinality({j \in DOMAIN coll : coll[j][f] = vals[i]})]]

\* collection.aggregate([{"$group": ...}, {"$sort": {"count": -1}}])
Aggregate(coll, f, natural) == SortDescTies(Group(coll, f), "count", natural)

\* collection.find_one(sort=[("_id", -1)])
FindOneLatest(coll) ==
    IF coll = <<>> THEN None ELSE SortDesc(coll, "_id")[1]

\* faulty variant of FindSortLimit: .sort(f, 1), oldest first
FindSortLimitAscending(coll, f, n, natural) ==
    LET sorted == Reverse(SortDescTies(coll, f, natural))
    IN  SubSeq(sorted, 1, IF Len(sorted) < n THEN Len(sorted) ELSE n)

\* collection.find().sort(f, -1).limit(n)
FindSortLimit(coll, f, n, natural) ==
    LET sorted == SortDescTies(coll, f, natural)
    IN  SubSeq(sorted, 1, IF Len(sorted) < n THEN Len(sorted) ELSE n)

\* a["id"] = str(a.pop("_id", ""))
PopId(a) ==
    [k \in (DOMAIN a \ {"_id"}) \cup {"id"} |->
        IF k = "id"
        THEN (IF "_id" \in DOMAIN a THEN ToString(a["_id"]) ELSE "")
        ELSE a[k]]

-----------------------------------------------------------------------------
(* The store before the process starts: documents written by other means   *)
(* (external provisioning).  The collections are schema-free, so a         *)
(* SmartPerformance document may lack a counter.                           *)

PreDevices ==
    { <<>>,
      << [device_id |-> "P-1", hostname |-> "HOST-1", type |-> "desktop",
          manufacturer |-> "HP", installed |-> FALSE, os |-> "Linux"],
         [device_id |-> "P-2", hostname |-> "HOST-2", type |-> "laptop",
          manufacturer |-> "Dell", installed |-> TRUE, os |-> "Linux"],
         [device_id |-> "P-3", hostname |-> "HOST-3", type |-> "laptop",
          manufacturer |-> "Dell", installed |-> TRUE, os |-> "Linux"] >> }

PreAlerts ==
    { <<>>,
      << [device_id |-> "P-1", severity |-> "info", component |-> "RAM",
          message |-> "note", timestamp |-> 0],
         [device_id |-> "P-2", severity |-> "critical", component |-> "CPU",
          message |-> "hot", timestamp |-> 1],
         [device_id |-> "P-3", severity |-> "warning", component |-> "CPU",
          message |-> "warm", timestamp |-> 1] >> }

PrePerf ==
    { <<>>,
      << [period |-> "today", disk_reclaimed_count |-> 7, tune_pc_fix_count |-> 8,
          malware_fix_count |-> 9, internet_performance_count |-> 10],
         [period |-> "month", disk_reclaimed_count |-> 1, tune_pc_fix_count |-> 2,
          internet_performance_count |-> 4] >> }

-----------------------------------------------------------------------------
(* Responses *)

NoResponse == [kind |-> "none"]

Ok(kind, body) == [kind |-> kind, status |-> 200, body |-> body]

\* raise HTTPException(status_code=500, detail="Database not configured")
HTTPException500(kind) ==
    [kind |-> kind, status |-> 500, detail |-> DETAIL_NOT_CONFIGURED]

\* faulty variant of DbIsNone: the test left out
DbIsNoneNever == FALSE

\* `db is None`
DbIsNone == ~dbConfigured

\* faulty variant of IsEmptyCount: `>= 0` for `== 0`
IsEmptyCountAlways(n) == n >= 0

\* `count_documents({}) == 0`
IsEmptyCount(n) == n = 0

\* Device.model_json_schema() and the like: the fields and the required ones
SchemaDefinitions ==
    [device |->
        [properties |-> {"device_id", "hostname", "type", "manufacturer",
                         "installed", "os"},
         required |-> {"device_id", "hostname", "type", "manufacturer", "installed"}],
     alert |->
        [properties |-> {"device_id", "severity", "component", "message", "timestamp"},
         required |-> {"device_id", "severity", "component", "message"}],
     smartperformance |->
        [properties |-> {"period", "disk_reclaimed_count", "tune_pc_fix_count",
                         "malware_fix_count", "internet_performance_count"},
         required |-> {"period"}]]

-----------------------------------------------------------------------------
(* Initial states *)

Init ==
    /\ dbConfigured \in BOOLEAN
    /\ \E d \in PreDevices, a \in PreAlerts, s \in PrePerf :
          /\ device = InsertMany(<<>>, d, 1)
          /\ alert = InsertMany(<<>>, a, 1 + Len(d))
          /\ smartperformance = InsertMany(<<>>, s, 1 + Len(d) + Len(a))
          /\ nextId = 1 + Len(d) + Len(a) + Len(s)
    /\ clock = 1
    /\ pc = [w \in Workers |-> "idle"]
    /\ loc = [w \in Workers |-> EmptyDoc]
    /\ resp = [w \in Workers |-> NoResponse]
    /\ snap = [w \in Workers |-> store]
    /\ ops = [w \in Workers |-> 0]
    /\ log = <<>>
    /\ naturalTies \in BOOLEAN
    /\ store0 = store

-----------------------------------------------------------------------------
(* Requests *)

Busy == {w \in Workers : pc[w] # "idle"}

\* the model still has a request to serve, and it goes to w, the first free
\* worker of the pool
Arrives(w, budget) ==
    /\ pc[w] = "idle"
    /\ \A v \in Workers : v < w => pc[v] # "idle"
    /\ Len(log) + Cardinality(Busy) < budget

\* w's handler returns r
Return(w, r) ==
    /\ pc' = [pc EXCEPT ![w] = "idle"]
    /\ loc' = [loc EXCEPT ![w] = EmptyDoc]
    /\ resp' = [resp EXCEPT ![w] = r]
    /\ log' = Append(log, r.kind)

\* w's handler goes on to `next` with local variables l
Goto(w, next, l) ==
    /\ pc' = [pc EXCEPT ![w] = next]
    /\ loc' = [loc EXCEPT ![w] = l]
    /\ UNCHANGED <<resp, log>>

\* w issues one call on the store
StoreCall(w) == ops' = [ops EXCEPT ![w] = @ + 1]

\* a request that answers at once, without a store call
Immediate(w, r) ==
    /\ Return(w, r)
    /\ snap' = [snap EXCEPT ![w] = store]
    /\ ops' = [ops EXCEPT ![w] = 0]
    /\ UNCHANGED <<dbConfigured, device, alert, smartperformance, nextId, clock,
                   naturalTies, store0>>

\* a request that passes the `db is None` test and goes on to its first store
\* call; it has no response yet
Enter(w, next) ==
    /\ pc' = [pc EXCEPT ![w] = next]
    /\ loc' = [loc EXCEPT ![w] = EmptyDoc]
    /\ resp' = [resp EXCEPT ![w] = NoResponse]
    /\ snap' = [snap EXCEPT ![w] = store]
    /\ ops' = [ops EXCEPT ![w] = 0]
    /\ UNCHANGED <<dbConfigured, device, alert, smartperformance, nextId, clock,
                   log, naturalTies, store0>>

\* GET /
Root(w, budget) ==
    /\ Arrives(w, budget)
    /\ Immediate(w, Ok("root", [message |-> "UEM Dashboard Backend Running"]))

\* GET /schema
GetSchemaDefinitions(w, budget) ==
    /\ Arrives(w, budget)
    /\ Immediate(w, Ok("schema", SchemaDefinitions))

-----------------------------------------------------------------------------
(* POST /seed *)

\* where the clock may tick while the alerts list is built: before the first
\* datetime.utcnow() call, after the first, after the third, or not at all
TickAfter == {0, 1, 3, Len(SeedAlertFields)}

\* the timestamps the six datetime.utcnow() calls of the alerts list return.
\* The clock never runs backwards, and the list is built within one tick or
\* across one tick boundary: the first k calls read the clock as it stands,
\* the others one tick later.
SeedTimestamps ==
    {[i \in 1..Len(SeedAlertFields) |-> IF i <= k THEN clock ELSE clock + 1] :
        k \in IF clock < MaxClock THEN TickAfter ELSE {Len(SeedAlertFields)}}

SeedUnconfigured(w, budget) ==
    /\ Arrives(w, budget)
    /\ DbIsNone
    /\ Immediate(w, HTTPException500("seed"))

SeedBegin(w, budget) ==
    /\ Arrives(w, budget)
    /\ ~DbIsNone
    /\ Enter(w, "seed_count_device")

\* faulty variant of SeedCountDevice: a non-empty device collection ends the
\* seeding of the other collections too
SeedCountDeviceReturnsEarly(w) ==
    /\ pc[w] = "seed_count_device"
    /\ StoreCall(w)
    /\ IF IsEmptyCount(CountDocuments(device, EmptyDoc))
       THEN Goto(w, "seed_insert_device", loc[w])
       ELSE Return(w, Ok("seed", [status |-> "ok"]))
    /\ UNCHANGED <<dbConfigured, device, alert, smartperformance, nextId, clock,
                   snap, naturalTies, store0>>

\* if db["device"].count_documents({}) == 0:
SeedCountDevice(w) ==
    /\ pc[w] = "seed_count_device"
    /\ StoreCall(w)
    /\ IF IsEmptyCount(CountDocuments(device, EmptyDoc))
       THEN Goto(w, "seed_insert_device", loc[w])
       ELSE Goto(w, "seed_count_alert", loc[w])
    /\ UNCHANGED <<dbConfigured, device, alert, smartperformance, nextId, clock,
                   snap, naturalTies, store0>>

\* faulty variant of SeedInsertDevice: the insert looks at the collection
\* again and does nothing when it is no longer empty (check and insert as one)
SeedInsertDeviceIfStillEmpty(w) ==
    /\ pc[w] = "seed_insert_device"
    /\ StoreCall(w)
    /\ device' = IF device = <<>> THEN InsertMany(device, SeedDevices, nextId)
                  ELSE device
    /\ nextId' = IF device = <<>> THEN nextId + Len(SeedDevices) ELSE nextId
    /\ Goto(w, "seed_count_alert", loc[w])
    /\ UNCHANGED <<dbConfigured, alert, smartperformance, clock, snap, naturalTies,
                   store0>>

\* db["device"].insert_many(devices)
SeedInsertDevice(w) ==
    /\ pc[w] = "seed_insert_device"
    /\ StoreCall(w)
    /\ device' = InsertMany(device, SeedDevices, nextId)
    /\ nextId' = nextId + Len(SeedDevices)
    /\ Goto(w, "seed_count_alert", loc[w])
    /\ UNCHANGED <<dbConfigured, alert, smartperformance, clock, snap, naturalTies,
                   store0>>

\* if db["alert"].count_documents({}) == 0: alerts = [...]
SeedCountAlert(w) ==
    /\ pc[w] = "seed_count_alert"
    /\ StoreCall(w)
    /\ IF IsEmptyCount(CountDocuments(alert, EmptyDoc))
       THEN \E ts \in SeedTimestamps :
              /\ clock' = ts[Len(SeedAlertFields)]
              /\ Goto(w, "seed_insert_alert",
                      WithField(loc[w], "alerts",
                                [i \in 1..Len(SeedAlertFields) |->
                                    WithField(SeedAlertFields[i], "timestamp", ts[i])]))
       ELSE /\ Goto(w, "seed_count_sp", loc[w])
            /\ UNCHANGED clock
    /\ UNCHANGED <<dbConfigured, device, alert, smartperformance, nextId, snap,
                   naturalTies, store0>>

\* db["alert"].insert_many(alerts)
SeedInsertAlert(w) ==
    /\ pc[w] = "seed_insert_alert"
    /\ StoreCall(w)
    /\ alert' = InsertMany(alert, loc[w].alerts, nextId)
    /\ nextId' = nextId + Len(loc[w].alerts)
    /\ Goto(w, "seed_count_sp", loc[w])
    /\ UNCHANGED <<dbConfigured, device, smartperformance, clock, snap, naturalTies,
                   store0>>

\* if db["smartperformance"].count_documents({}) == 0: ... else return {"status": "ok"}
SeedCountPerf(w) ==
    /\ pc[w] = "seed_count_sp"
    /\ StoreCall(w)
    /\ IF IsEmptyCount(CountDocuments(smartperformance, EmptyDoc))
       THEN Goto(w, "seed_insert_sp", loc[w])
       ELSE Return(w, Ok("seed", [status |-> "ok"]))
    /\ UNCHANGED <<dbConfigured, device, alert, smartperformance, nextId, clock,
                   snap, naturalTies, store0>>

\* db["smartperformance"].insert_one(perf); return {"status": "ok"}
SeedInsertPerf(w) ==
    /\ pc[w] = "seed_insert_sp"
    /\ StoreCall(w)
    /\ smartperformance' = InsertOne(smartperformance, SeedPerf, nextId)
    /\ nextId' = nextId + 1
    /\ Return(w, Ok("seed", [status |-> "ok"]))
    /\ UNCHANGED <<dbConfigured, device, alert, clock, snap, naturalTies, store0>>

seed_demo_data(w, budget) ==
    \/ SeedUnconfigured(w, budget)
    \/ SeedBegin(w, budget)
    \/ SeedCountDevice(w)
    \/ SeedInsertDevice(w)
    \/ SeedCountAlert(w)
    \/ SeedInsertAlert(w)
    \/ SeedCountPerf(w)
    \/ SeedInsertPerf(w)

-----------------------------------------------------------------------------
(* GET /dashboard *)

\* a dashboard step that reads the store into local variable `name`
DashRead(w, at, next, name, value) ==
    /\ pc[w] = at
    /\ StoreCall(w)
    /\ Goto(w, next, WithField(loc[w], name, value))
    /\ UNCHANGED <<dbConfigured, device, alert, smartperformance, nextId, clock,
                   snap, naturalTies, store0>>

\* the returned structure
DashboardBody(l) ==
    [smart_performance |->
        [disk_reclaimed_count |-> Get(l.sp, "disk_reclaimed_count", 0),
         tune_pc_fix_count |-> Get(l.sp, "tune_pc_fix_count", 0),
         malware_fix_count |-> Get(l.sp, "malware_fix_count", 0),
         internet_performance_count |-> Get(l.sp, "internet_performance_count", 0)],
     device_info |->
        [total |-> l.total_devices,
         installed |-> l.installed_count,
         not_installed |-> l.not_installed_count,
         laptops |-> l.laptop_count,
         desktops |-> l.desktop_count,
         manufacturers |-> l.manufacturer_counts],
     alerts |->
        [critical |-> l.critical_count,
         warning |-> l.warning_count,
         by_component |-> l.alerts_by_component,
         top5 |-> l.top_alerts]]

DashUnconfigured(w, budget) ==
    /\ Arrives(w, budget)
    /\ DbIsNone
    /\ Immediate(w, HTTPException500("dashboard"))

DashBegin(w, budget) ==
    /\ Arrives(w, budget)
    /\ ~DbIsNone
    /\ Enter(w, "dash_find_sp")

\* faulty variant of DashFindPerf: find_one_and_delete, which takes the
\* document out of the collection
DashFindPerfConsuming(w) ==
    /\ pc[w] = "dash_find_sp"
    /\ StoreCall(w)
    /\ Goto(w, "dash_count_total",
            WithField(loc[w], "sp", OrEmpty(FindOneLatest(smartperformance))))
    /\ smartperformance' =
          SubSeq(SortDesc(smartperformance, "_id"), 2, Len(smartperformance))
    /\ UNCHANGED <<dbConfigured, device, alert, nextId, clock, snap, naturalTies,
                   store0>>

\* sp = db["smartperformance"].find_one(sort=[("_id", -1)]) or {}
DashFindPerf(w) ==
    DashRead(w, "dash_find_sp", "dash_count_total", "sp",
             OrEmpty(FindOneLatest(smartperformance)))

\* total_devices = db["device"].count_documents({})
DashCountTotal(w) ==
    DashRead(w, "dash_count_total", "dash_count_installed", "total_devices",
             CountDocuments(device, EmptyDoc))

\* installed_count = db["device"].count_documents({"installed": True})
DashCountInstalled(w) ==
    DashRead(w, "dash_count_installed", "dash_count_not_installed", "installed_count",
             CountDocuments(device, [installed |-> TRUE]))

\* not_installed_count = db["device"].count_documents({"installed": False})
DashCountNotInstalled(w) ==
    DashRead(w, "dash_count_not_installed", "dash_count_laptop", "not_installed_count",
             CountDocuments(device, [installed |-> FALSE]))

\* laptop_count = db["device"].count_documents({"type": "laptop"})
DashCountLaptop(w) ==
    DashRead(w, "dash_count_laptop", "dash_count_desktop", "laptop_count",
             CountDocuments(device, [type |-> "laptop"]))

\* desktop_count = db["device"].count_documents({"type": "desktop"})
DashCountDesktop(w) ==
    DashRead(w, "dash_count_desktop", "dash_agg_manufacturer", "desktop_count",
             CountDocuments(device, [type |-> "desktop"]))

\* manufacturer_counts = [{"manufacturer": d["_id"], "count": d["count"]} for d in ...]
DashAggManufacturer(w) ==
    LET groups == Aggregate(device, "manufacturer", naturalTies)
    IN  DashRead(w, "dash_agg_manufacturer", "dash_count_critical",
                 "manufacturer_counts",
                 [i \in DOMAIN groups |->
                     [manufacturer |-> groups[i]["_id"], count |-> groups[i]["count"]]])

\* critical_count = db["alert"].count_documents({"severity": "critical"})
DashCountCritical(w) ==
    DashRead(w, "dash_count_critical", "dash_count_warning", "critical_count",
             CountDocuments(alert, [severity |-> "critical"]))

\* warning_count = db["alert"].count_documents({"severity": "warning"})
DashCountWarning(w) ==
    DashRead(w, "dash_count_warning", "dash_agg_component", "warning_count",
             CountDocuments(alert, [severity |-> "warning"]))

\* alerts_by_component = [{"component": d["_id"], "count": d["count"]} for d in ...]
DashAggComponent(w) ==
    LET groups == Aggregate(alert, "component", naturalTies)
    IN  DashRead(w, "dash_agg_component", "dash_find_top",
                 "alerts_by_component",
                 [i \in DOMAIN groups |->
                     [component |-> groups[i]["_id"], count |-> groups[i]["count"]]])

\* top_alerts = list(db["alert"].find().sort("timestamp", -1).limit(5)); the
\* loop over top_alerts; return {...}
DashFindTop(w) ==
    /\ pc[w] = "dash_find_top"
    /\ StoreCall(w)
    /\ LET found == FindSortLimit(alert, "timestamp", TopLimit, naturalTies)
           top_alerts == [i \in DOMAIN found |-> PopId(found[i])]
       IN  Return(w, Ok("dashboard",
                        DashboardBody(WithField(loc[w], "top_alerts", top_alerts))))
    /\ UNCHANGED <<dbConfigured, device, alert, smartperformance, nextId, clock,
                   snap, naturalTies, store0>>

get_dashboard(w, budget) ==
    \/ DashUnconfigured(w, budget)
    \/ DashBegin(w, budget)
    \/ DashFindPerf(w)
    \/ DashCountTotal(w)
    \/ DashCountInstalled(w)
    \/ DashCountNotInstalled(w)
    \/ DashCountLaptop(w)
    \/ DashCountDesktop(w)
    \/ DashAggManufacturer(w)
    \/ DashCountCritical(w)
    \/ DashCountWarning(w)
    \/ DashAggComponent(w)
    \/ DashFindTop(w)

-----------------------------------------------------------------------------
(* Specifications *)

Handle(w, budget) ==
    \/ Root(w, budget)
    \/ GetSchemaDefinitions(w, budget)
    \/ seed_demo_data(w, budget)
    \/ get_dashboard(w, budget)

\* requests of any two workers interleave between store calls
Next == \E w \in Workers : Handle(w, MaxRequests)

Spec == Init /\ [][Next]_vars

\* one request at a time: no other request runs between arrival and response
NextSeq == Handle(1, MaxSeqRequests)

SpecSeq == Init /\ [][NextSeq]_vars

-----------------------------------------------------------------------------
(* Vocabulary of the properties *)

\* worker w has answered a request of this kind and is free
Answered(w, kind) == pc[w] = "idle" /\ resp[w].kind = kind

\* the last two requests answered, in the one-request-at-a-time specification
LastTwo(first, second) ==
    /\ pc[1] = "idle"
    /\ Len(log) >= 2
    /\ log[Len(log) - 1] = first
    /\ log[Len(log)] = second

StoreEmpty(st) ==
    st.device = <<>> /\ st.alert = <<>> /\ st.smartperformance = <<>>

\* doc without the fields of F
Without(doc, F) == [k \in DOMAIN doc \ F |-> doc[k]]

Min(a, b) == IF a < b THEN a ELSE b

RECURSIVE SumCounts(_)
SumCounts(s) == IF s = <<>> THEN 0 ELSE Head(s).count + SumCounts(Tail(s))

NonIncreasing(s, f) == \A i \in 1..(Len(s) - 1) : s[i][f] >= s[i + 1][f]

\* entries is the breakdown of coll by field f, each value under key `name`
IsBreakdown(entries, coll, f, name) ==
    /\ {entries[i][name] : i \in DOMAIN entries} = {coll[j][f] : j \in DOMAIN coll}
    /\ \A i, j \in DOMAIN entries : entries[i][name] = entries[j][name] => i = j
    /\ \A i \in DOMAIN entries :
          /\ DOMAIN entries[i] = {name, "count"}
          /\ entries[i].count =
                Cardinality({j \in DOMAIN coll : coll[j][f] = entries[i][name]})
    /\ NonIncreasing(entries, "count")

-----------------------------------------------------------------------------
(* C1 *)

\* C1: with the store configured and the three collections empty, the
\* dashboard response has all four smart_performance counters 0, every
\* device_info and alerts count 0, and manufacturers, by_component and top5
\* empty lists; no field is null or absent.
C1_EmptyStoreDashboard ==
    \A w \in Workers :
        (Answered(w, "dashboard") /\ dbConfigured /\ StoreEmpty(store)) =>
            /\ resp[w].status = 200
            /\ resp[w].body =
                  [smart_performance |->
                      [disk_reclaimed_count |-> 0, tune_pc_fix_count |-> 0,
                       malware_fix_count |-> 0, internet_performance_count |-> 0],
                   device_info |->
                      [total |-> 0, installed |-> 0, not_installed |-> 0,
                       laptops |-> 0, desktops |-> 0, manufacturers |-> <<>>],
                   alerts |->
                      [critical |-> 0, warning |-> 0, by_component |-> <<>>,
                       top5 |-> <<>>]]

C1_Witness ==
    /\ Answered(1, "dashboard")
    /\ dbConfigured
    /\ StoreEmpty(store)
    /\ resp[1].body.device_info.total = 0

-----------------------------------------------------------------------------
(* C2 *)

\* C2: a seed call that directly follows a seed call, with no other request
\* in between, leaves each collection with the record count the first one
\* left it with.
C2_SeedTwiceSameCounts ==
    LastTwo("seed", "seed") =>
        /\ Len(device) = Len(snap[1].device)
        /\ Len(alert) = Len(snap[1].alert)
        /\ Len(smartperformance) = Len(snap[1].smartperformance)

C2_Witness ==
    /\ LastTwo("seed", "seed")
    /\ resp[1].status = 200
    /\ StoreEmpty(store0)
    /\ Len(device) = 5 /\ Len(alert) = 6 /\ Len(smartperformance) = 1

-----------------------------------------------------------------------------
(* C3 *)

\* C3: a seed call that runs alone puts the fixed sample records into a
\* collection exactly when that collection was empty, and leaves a non-empty
\* collection as it was, each collection on its own.
C3_SeedPerCollection ==
    (Answered(1, "seed") /\ resp[1].status = 200) =>
        /\ IF snap[1].device = <<>>
           THEN [i \in DOMAIN device |-> Without(device[i], {"_id"})] = SeedDevices
           ELSE device = snap[1].device
        /\ IF snap[1].alert = <<>>
           THEN [i \in DOMAIN alert |-> Without(alert[i], {"_id", "timestamp"})]
                   = SeedAlertFields
           ELSE alert = snap[1].alert
        /\ IF snap[1].smartperformance = <<>>
           THEN [i \in DOMAIN smartperformance |->
                    Without(smartperformance[i], {"_id"})] = <<SeedPerf>>
           ELSE smartperformance = snap[1].smartperformance

C3_Witness ==
    /\ Answered(1, "seed")
    /\ resp[1].status = 200
    /\ snap[1].device # <<>>
    /\ snap[1].alert = <<>>
    /\ Len(alert) = 6
    /\ device = snap[1].device

-----------------------------------------------------------------------------
(* C4 *)

\* C4: after one seed call on an empty store the dashboard reports
\* total 5, laptops 3, desktops 2, installed 3, not_installed 2, the
\* manufacturers Dell (2) first and then HP, Lenovo and Acer with 1 each in any
\* order, and 3 critical and 3 warning alerts.
C4_SeededDashboard ==
    (log = <<"seed", "dashboard">> /\ pc[1] = "idle" /\ dbConfigured
        /\ StoreEmpty(store0)) =>
        LET b == resp[1].body
            m == b.device_info.manufacturers
        IN  /\ b.device_info.total = 5
            /\ b.device_info.laptops = 3
            /\ b.device_info.desktops = 2
            /\ b.device_info.installed = 3
            /\ b.device_info.not_installed = 2
            /\ Len(m) = 4
            /\ m[1] = [manufacturer |-> "Dell", count |-> 2]
            /\ {m[i] : i \in 2..4} =
                  {[manufacturer |-> x, count |-> 1] : x \in {"HP", "Lenovo", "Acer"}}
            /\ b.alerts.critical = 3
            /\ b.alerts.warning = 3

C4_Witness ==
    /\ log = <<"seed", "dashboard">>
    /\ pc[1] = "idle"
    /\ dbConfigured
    /\ StoreEmpty(store0)
    /\ resp[1].body.device_info.manufacturers[2].manufacturer = "Acer"

-----------------------------------------------------------------------------
(* C5 *)

\* C5: top5 holds min(5, number of alerts) entries, in order of timestamp
\* non-increasing, and no alert left out is more recent than one included.
C5_Top5 ==
    (Answered(1, "dashboard") /\ resp[1].status = 200) =>
        LET top == resp[1].body.alerts.top5
            ids == {top[i].id : i \in DOMAIN top}
        IN  /\ Len(top) = Min(5, Len(alert))
            /\ NonIncreasing(top, "timestamp")
            /\ \A i \in DOMAIN top : \E j \in DOMAIN alert :
                  top[i].id = ToString(alert[j]["_id"])
                  /\ Without(top[i], {"id"}) = Without(alert[j], {"_id"})
            /\ \A j \in DOMAIN alert :
                  ToString(alert[j]["_id"]) \notin ids =>
                      \A i \in DOMAIN top : alert[j].timestamp <= top[i].timestamp

C5_Witness ==
    /\ Answered(1, "dashboard")
    /\ resp[1].status = 200
    /\ Len(alert) = 6
    /\ Len(resp[1].body.alerts.top5) = 5
    /\ \E j \in DOMAIN alert :
          alert[j].timestamp < resp[1].body.alerts.top5[5].timestamp

-----------------------------------------------------------------------------
(* C6 *)

\* C6: with the store handle unconfigured, POST /seed and GET /dashboard
\* answer 500 with the fixed detail, issue no store call and leave the store
\* as it was; GET / and GET /schema answer 200.
C6_Unconfigured ==
    (~dbConfigured /\ pc[1] = "idle" /\ resp[1].kind # "none") =>
        /\ resp[1].kind \in {"seed", "dashboard"} =>
              /\ resp[1].status = 500
              /\ resp[1].detail = "Database not configured"
              /\ ops[1] = 0
              /\ store = snap[1]
              /\ store = store0
        /\ resp[1].kind = "root" =>
              /\ resp[1].status = 200
              /\ resp[1].body = [message |-> "UEM Dashboard Backend Running"]
        /\ resp[1].kind = "schema" =>
              /\ resp[1].status = 200
              /\ DOMAIN resp[1].body = {"device", "alert", "smartperformance"}

C6_Witness ==
    /\ ~dbConfigured
    /\ log = <<"seed", "dashboard">>
    /\ resp[1].status = 500
    /\ ~StoreEmpty(store)

-----------------------------------------------------------------------------
(* C7 *)

\* C7: after a dashboard call, answered 200 or 500, the three collections
\* hold exactly what they held when the call arrived.
C7_DashboardReadOnly ==
    Answered(1, "dashboard") => store = snap[1]

C7_Witness ==
    /\ log = <<"seed", "dashboard">>
    /\ pc[1] = "idle"
    /\ resp[1].status = 200
    /\ Len(device) = 5

-----------------------------------------------------------------------------
(* C8 *)

\* C8: the seeder's insert does not look at the collection again: a seed
\* call that found a collection empty adds the sample records to whatever the
\* collection holds by then, so two concurrent seed calls on an empty store
\* can leave 10 devices, 12 alerts and 2 smartperformance records.
C8_InsertAfterCheck ==
    [][\A w \in Workers :
          /\ (pc[w] = "seed_insert_device" /\ pc'[w] # pc[w]) =>
                Len(device') = Len(device) + 5
          /\ (pc[w] = "seed_insert_alert" /\ pc'[w] # pc[w]) =>
                Len(alert') = Len(alert) + 6
          /\ (pc[w] = "seed_insert_sp" /\ pc'[w] # pc[w]) =>
                Len(smartperformance') = Len(smartperformance) + 1]_vars

C8_Witness ==
    /\ StoreEmpty(store0)
    /\ log = <<"seed", "seed">>
    /\ Len(device) = 10
    /\ Len(alert) = 12
    /\ Len(smartperformance) = 2

-----------------------------------------------------------------------------
(* C9 *)

\* C9: manufacturers holds one entry for each distinct manufacturer among
\* the devices, with the number of devices of that manufacturer, in order of
\* count non-increasing; by_component is the same over the alerts' component.
C9_Breakdowns ==
    (Answered(1, "dashboard") /\ resp[1].status = 200) =>
        /\ IsBreakdown(resp[1].body.device_info.manufacturers, device,
                       "manufacturer", "manufacturer")
        /\ IsBreakdown(resp[1].body.alerts.by_component, alert,
                       "component", "component")

C9_Witness ==
    /\ Answered(1, "dashboard")
    /\ resp[1].status = 200
    /\ device = store0.device
    /\ Len(device) = 3
    /\ device[1].manufacturer = "HP"
    /\ resp[1].body.device_info.manufacturers =
          << [manufacturer |-> "Dell", count |-> 2],
             [manufacturer |-> "HP", count |-> 1] >>
    /\ Len(resp[1].body.alerts.by_component) = 4

-----------------------------------------------------------------------------
(* C10 *)

\* the device counts of a dashboard response agree with each other
DeviceInfoConsistent(info) ==
    /\ info.total = info.installed + info.not_installed
    /\ info.total = info.laptops + info.desktops
    /\ info.total = SumCounts(info.manufacturers)

\* C10 as stated: every dashboard response over seeder-inserted devices is
\* consistent, also when a seed call's inserts fall between the dashboard's
\* queries.
C10_Original ==
    \A w \in Workers :
        (Answered(w, "dashboard") /\ resp[w].status = 200 /\ store0.device = <<>>) =>
            DeviceInfoConsistent(resp[w].body.device_info)

\* C10: a dashboard response over seeder-inserted devices is consistent
\* (total = installed + not_installed = laptops + desktops = sum of the
\* manufacturers' counts) when no insert into the device collection fell
\* between the call's arrival and its response.
C10_ConsistentWithoutInterleavedInsert ==
    \A w \in Workers :
        (Answered(w, "dashboard") /\ resp[w].status = 200 /\ store0.device = <<>>
            /\ device = snap[w].device) =>
            DeviceInfoConsistent(resp[w].body.device_info)

C10_Witness ==
    /\ Answered(2, "dashboard")
    /\ resp[2].status = 200
    /\ store0.device = <<>>
    /\ device = snap[2].device
    /\ pc[1] = "seed_count_sp"
    /\ resp[2].body.device_info.total = 5

====
